---- MODULE Spec2Model ----
(***************************************************************************)
(* Transfer queue of the FTP client's renderer (class TransferQueue) with  *)
(* the in-flight 'upload-file-with-progress' / 'download-file-with-        *)
(* progress' invocations it issues and the 'transfer-progress' events the  *)
(* main process sends back.                                                *)
(*                                                                         *)
(* JavaScript objects are modelled as a heap: `items` maps an item id to   *)
(* the fields of the queueItem object created by addTransfer, `queue` is   *)
(* this.queue (a list of references, here ids) and `activeTransfers` the   *)
(* key set of this.activeTransfers.  A processQueue call suspended at      *)
(* `await this.executeTransfer(nextTransfer)` is one unit of inflight[id]. *)
(*                                                                         *)
(* The main process is modelled next to it: ConnectionManager (the session *)
(* registry this.connections, the connect calls with the events of their   *)
(* FTP / SSH clients, the session methods and disconnect) and its          *)
(* SpeedLimitManager (per-connection and global caps).  Spec, LiveSpec and *)
(* EnqSpec move the queue only; ConnSpec and LimitSpec move the managers.  *)
(***************************************************************************)
EXTENDS Integers, Sequences, FiniteSets, TLC

\* ---------------------------------------------------------------- bounds
MaxAdds == 4        \* addTransfer calls explored
MaxTimers == 2      \* pending setTimeout(processQueue, 100) callbacks explored
MaxOps == 2         \* pause/resume/cancel/pauseAll/resumeAll/clearCompleted calls explored
MaxConnects == 2    \* connect calls explored
MaxSets == 3        \* setSpeedLimit/setGlobalSpeedLimit calls explored
MaxCap == 2         \* largest finite cap explored, in bytes per second
MaxTicks == 4       \* clock ticks explored after a start time
MaxChunk == 2       \* largest chunk length explored, in bytes
MaxSize == 3        \* largest file size explored, in bytes
MaxDepth == 3       \* longest remote path explored, in segments
MaxTabs == 3        \* createTab calls explored
MaxSessions == 2    \* successful connects of the renderer explored
MaxFiles == 2       \* relative paths explored in a directory comparison
MaxStamp == 2       \* largest file size and modification time explored

\* ------------------------------------------------------- program constants
maxConcurrent == 3
\* setTimeout(..., 30000) of uploadFile, in clock ticks of 10 s
UploadTimeoutTicks == 3

Statuses == {"queued", "active", "paused", "completed", "error", "cancelled"}
Terminal == {"completed", "error", "cancelled"}
Live == {"queued", "active", "paused"}

\* error.message values a failed invocation may carry
Msgs == {"E1"}
\* payloads of 'transfer-progress' events: percent and speed as sent by main
Payloads == {[percent |-> 50, speed |-> 9]}

\* the renderer's currentConnection while a session is open; every enqueueing
\* function returns early when it is null
currentConnection == "c1"

\* the functions of the renderer that call transferQueue.addTransfer
Sites == {"uploadFile", "downloadFile", "uploadDroppedFile", "uploadFolder",
          "downloadFolder", "compressAndUploadFile", "compressAndUploadFolder",
          "executeSyncUpload", "executeSyncDownload"}

\* the object literal each function passes to addTransfer: its type and its
\* connectionId property ("undefined" when the literal has none)
transferOf(site) ==
  [type |-> IF site \in {"downloadFile", "downloadFolder", "executeSyncDownload"}
            THEN "download" ELSE "upload",
   connectionId |-> IF site \in {"uploadFile", "downloadFile", "uploadDroppedFile",
                                  "uploadFolder", "downloadFolder"}
                    THEN currentConnection ELSE "undefined"]

VARIABLES
  items,            \* heap: id -> queueItem fields
  queue,            \* this.queue, sequence of item ids
  activeTransfers,  \* keys of this.activeTransfers
  isPaused,         \* this.isPaused
  queueId,          \* this.queueId
  inflight,         \* id -> number of invocations awaiting their result
  timers,           \* pending setTimeout(() => this.processQueue(), 100)
  ops               \* observer: control calls made so far

\* main process: ConnectionManager and its SpeedLimitManager
VARIABLES
  connections,      \* this.connections: connection id -> type ('ftp' | 'sftp')
  attempts,         \* connect calls by uuid: protocol, state of the client,
                    \* hasConnected, pending sftp callback, result of the promise
  lastOp,           \* observer: the last session call, its result, and whether
                    \* it called the FTP client / SFTP session
  limits,           \* speedLimitManager.limits: connection id -> {upload, download}
  globalLimits,     \* speedLimitManager.globalLimits, <<>> while undefined
  sets              \* observer: limit settings made so far

queueVars == <<items, queue, activeTransfers, isPaused, queueId, inflight, timers,
               ops>>
cmVars == <<connections, attempts, lastOp>>
limitVars == <<limits, globalLimits, sets>>

\* main process: streams and transfers
VARIABLES
  limiter,          \* a SpeedLimiter: maxBytesPerSecond, the clock since
                    \* startTime, totalBytes, the chunk held by setTimeout
  xfer              \* one run of the 'upload-file-with-progress' or
                    \* 'download-file-with-progress' handler

\* main process: createDirectory on an SFTP session
VARIABLES
  remote,           \* the server's file system along one path: what the
                    \* k-th prefix of the path is
  mk                \* one run of createDirectory

fsVars == <<remote, mk>>

\* renderer: tabs and the connection the user interface works on
VARIABLES
  tabs,             \* tabManager.tabs: tab id -> tab.connection (0 is null)
  activeTabId,      \* tabManager.activeTabId
  tabCounter,       \* tab ids handed out (uuidv4 as a counter)
  currentConn,      \* the renderer's module variable currentConnection
  windowConn,       \* the property window.currentConnection
  controls,         \* whether btn-disconnect is enabled
  sessions,         \* connection ids open in the main process
  sessionCounter,   \* connection ids handed out by 'connect-ftp'
  target            \* the connection id of the last remote operation

tabVars == <<tabs, activeTabId, tabCounter, currentConn, windowConn, controls,
             sessions, sessionCounter, target>>

\* renderer: directory synchronisation
VARIABLES
  sync              \* one call of compareSyncFiles: its arguments and the
                    \* actions it returned

restVars == <<fsVars, tabVars, sync>>

auxVars == <<limiter, xfer, restVars>>

vars == <<queueVars, cmVars, limitVars, auxVars>>

\* the queue object as one record, so that handlers can call one another
St == [items |-> items, queue |-> queue, activeTransfers |-> activeTransfers,
       isPaused |-> isPaused, queueId |-> queueId, inflight |-> inflight,
       timers |-> timers]

BecomeSt(s) ==
  /\ items' = s.items
  /\ queue' = s.queue
  /\ activeTransfers' = s.activeTransfers
  /\ isPaused' = s.isPaused
  /\ queueId' = s.queueId
  /\ inflight' = s.inflight
  /\ timers' = s.timers

Become(s) ==
  /\ BecomeSt(s)
  /\ UNCHANGED <<cmVars, limitVars, auxVars>>

\* ----------------------------------------------------------- helpers
InQueue(s, id) == \E k \in 1..Len(s.queue) : s.queue[k] = id

RECURSIVE FilterSeq(_, _)
\* Array.prototype.filter with the predicate given as the set of kept ids
FilterSeq(q, keep) ==
  IF q = <<>> THEN <<>>
  ELSE IF Head(q) \in keep THEN <<Head(q)>> \o FilterSeq(Tail(q), keep)
       ELSE FilterSeq(Tail(q), keep)

\* Array.from(this.activeTransfers.values()).filter(t => t.status === 'active').length
activeCount(s) == Cardinality({i \in s.activeTransfers : s.items[i].status = "active"})

\* variant of nextTransfer: takes the most recently enqueued eligible item
nextTransfer_Last(s) ==
  LET ok == {k \in 1..Len(s.queue) :
               /\ s.items[s.queue[k]].status = "queued"
               /\ ~s.items[s.queue[k]].isPaused}
  IN IF ok = {} THEN 0
     ELSE s.queue[CHOOSE k \in ok : \A j \in ok : k >= j]

\* this.queue.find(t => t.status === 'queued' && !t.isPaused); 0 when undefined
nextTransfer(s) ==
  LET ok == {k \in 1..Len(s.queue) :
               /\ s.items[s.queue[k]].status = "queued"
               /\ ~s.items[s.queue[k]].isPaused}
  IN IF ok = {} THEN 0
     ELSE s.queue[CHOOSE k \in ok : \A j \in ok : k <= j]

\* || 0 of the progress handler: a falsy value becomes 0
OrZero(v) == IF v = 0 THEN 0 ELSE v

\* ----------------------------------------------------------- handlers
\* variant of processQueue: capacity test written > instead of >=
processQueue_OffByOne(s) ==
  IF s.isPaused THEN s
  ELSE IF activeCount(s) > maxConcurrent THEN s
  ELSE LET n == nextTransfer(s) IN
       IF n = 0 THEN s
       ELSE [s EXCEPT !.items[n].status = "active",
                      !.activeTransfers = @ \cup {n},
                      !.inflight[n] = @ + 1]

\* processQueue up to its await: starts at most one transfer
processQueue(s) ==
  IF s.isPaused THEN s
  ELSE IF activeCount(s) >= maxConcurrent THEN s
  ELSE LET n == nextTransfer(s) IN
       IF n = 0 THEN s
       ELSE [s EXCEPT !.items[n].status = "active",
                      !.activeTransfers = @ \cup {n},
                      !.inflight[n] = @ + 1]

\* variant of addTransfer: the trailing this.processQueue() call is missing
addTransfer_NoPass(s, transfer) ==
  LET id == s.queueId + 1
      queueItem == [type |-> transfer.type, connectionId |-> transfer.connectionId,
                    status |-> "queued", progress |-> 0, speed |-> 0,
                    error |-> "null", isPaused |-> FALSE]
  IN [s EXCEPT !.queueId = id,
               !.items = [i \in 1..id |-> IF i = id THEN queueItem ELSE s.items[i]],
               !.inflight = [i \in 1..id |-> IF i = id THEN 0 ELSE s.inflight[i]],
               !.queue = Append(@, id)]

addTransfer(s, transfer) ==
  LET id == s.queueId + 1
      queueItem == [type |-> transfer.type, connectionId |-> transfer.connectionId,
                    status |-> "queued", progress |-> 0, speed |-> 0,
                    error |-> "null", isPaused |-> FALSE]
      s1 == [s EXCEPT !.queueId = id,
                      !.items = [i \in 1..id |-> IF i = id THEN queueItem ELSE s.items[i]],
                      !.inflight = [i \in 1..id |-> IF i = id THEN 0 ELSE s.inflight[i]],
                      !.queue = Append(@, id)]
  IN processQueue(s1)

pauseTransfer(s, id) ==
  IF InQueue(s, id) /\ s.items[id].status = "active"
  THEN [s EXCEPT !.items[id].isPaused = TRUE, !.items[id].status = "paused"]
  ELSE s

resumeTransfer(s, id) ==
  IF InQueue(s, id) /\ s.items[id].status = "paused"
  THEN processQueue([s EXCEPT !.items[id].isPaused = FALSE,
                              !.items[id].status = "queued"])
  ELSE s

cancelTransfer(s, id) ==
  IF InQueue(s, id)
  THEN processQueue([s EXCEPT !.items[id].status = "cancelled",
                              !.activeTransfers = @ \ {id}])
  ELSE s

RECURSIVE pauseEach(_, _)
\* this.queue.forEach(transfer => { if active: this.pauseTransfer(transfer.id) })
pauseEach(s, k) ==
  IF k > Len(s.queue) THEN s
  ELSE LET id == s.queue[k] IN
       pauseEach(IF s.items[id].status = "active" THEN pauseTransfer(s, id) ELSE s, k + 1)

pauseAll(s) == pauseEach([s EXCEPT !.isPaused = TRUE], 1)

RECURSIVE resumeEach(_, _)
\* this.queue.forEach(transfer => { if paused: this.resumeTransfer(transfer.id) })
resumeEach(s, k) ==
  IF k > Len(s.queue) THEN s
  ELSE LET id == s.queue[k] IN
       resumeEach(IF s.items[id].status = "paused" THEN resumeTransfer(s, id) ELSE s, k + 1)

resumeAll(s) == resumeEach([s EXCEPT !.isPaused = FALSE], 1)

\* variant of clearCompleted: the filter keeps queued and active items only
clearCompleted_DropPaused(s) ==
  [s EXCEPT !.queue = FilterSeq(@, {i \in DOMAIN s.items : s.items[i].status \in {"queued", "active"}})]

clearCompleted(s) ==
  [s EXCEPT !.queue = FilterSeq(@, {i \in DOMAIN s.items : s.items[i].status \notin Terminal})]

\* ipcRenderer.on('transfer-progress', (event, transferId, progress) => ...)
onTransferProgress(s, id, p) ==
  IF InQueue(s, id)
  THEN [s EXCEPT !.items[id].progress = OrZero(p.percent),
                 !.items[id].speed = OrZero(p.speed)]
  ELSE s

\* executeTransfer after its await, result.success: status and progress
executeSuccess(s, id) ==
  [s EXCEPT !.items[id].status = "completed", !.items[id].progress = 100]

\* executeTransfer after its await, !result.success: throw, catch, rethrow
executeFailure(s, id, msg) ==
  [s EXCEPT !.items[id].status = "error", !.items[id].error = msg]

\* processQueue after its await: the catch block, delete, setTimeout
processQueueCatch(s, id, msg) ==
  [s EXCEPT !.items[id].status = "error", !.items[id].error = msg]

\* variant of processQueueAfter: the setTimeout(processQueue) is missing
processQueueAfter_NoTimer(s, id) ==
  [s EXCEPT !.activeTransfers = @ \ {id},
            !.inflight[id] = @ - 1]

processQueueAfter(s, id) ==
  [s EXCEPT !.activeTransfers = @ \ {id},
            !.inflight[id] = @ - 1,
            !.timers = @ + 1]

\* ------------------------------------------------- connection manager
\* values of config.protocol: 'scp' stands for any unsupported string
Protocols == {"ftp", "ftps", "sftp", "scp"}
\* how an SFTP config authenticates: password, a private key file that can
\* be read, a private key file that cannot
Auths == {"password", "key", "badKey"}

\* the methods that start with a registry lookup
SessionOps == {"listDirectory", "downloadFile", "uploadFile", "renameFile",
               "deleteFile", "getFileStats", "chmod", "createDirectory"}
\* how the transport answers a call: success, failure
Outcomes == {"ok", "fail"}

NotFound == "Connection not found"
\* the else branches of renameFile, getFileStats and chmod
UnsupportedMsg(op) ==
  CASE op = "renameFile" -> "Rename not supported for FTP connections"
    [] op = "getFileStats" -> "File stats not available for FTP connections"
    [] op = "chmod" -> "Chmod not supported for FTP connections"
    [] OTHER -> "none"
FtpUnsupported == {"renameFile", "getFileStats", "chmod"}

\* the manager as one record
Cm == [connections |-> connections, attempts |-> attempts, lastOp |-> lastOp]

BecomeCm(m) ==
  /\ connections' = m.connections
  /\ attempts' = m.attempts
  /\ lastOp' = m.lastOp

\* this.connections.set(connectionId, { type, ... })
RegistrySet(c, id, type) == [i \in DOMAIN c \cup {id} |-> IF i = id THEN type ELSE c[i]]
\* this.connections.delete(connectionId)
RegistryDelete(c, id) == [i \in DOMAIN c \ {id} |-> c[i]]

\* reject(new Error(msg)): a promise settles once
reject(m, id, msg) ==
  IF m.attempts[id].result = "pending"
  THEN [m EXCEPT !.attempts[id].result = msg]
  ELSE m

\* resolve({ id: connectionId }) / return { id: connectionId }
resolve(m, id) ==
  IF m.attempts[id].result = "pending"
  THEN [m EXCEPT !.attempts[id].result = "id"]
  ELSE m

\* connect(config) up to its first await or to sshClient.connect(); the
\* uuid is the number of the call
connect(m, protocol, auth) ==
  LET id == Len(m.attempts) + 1
      new(phase, result) == [protocol |-> protocol, phase |-> phase,
                             hasConnected |-> FALSE, cb |-> FALSE, result |-> result]
  IN [m EXCEPT !.attempts = Append(@,
        IF protocol \in {"ftp", "ftps"} THEN new("access", "pending")
        ELSE IF protocol = "sftp"
             THEN IF auth = "badKey" THEN new("none", "Failed to read private key")
                  ELSE new("connecting", "pending")
             ELSE new("none", "Unsupported protocol"))]

\* await client.access(...) fulfilled: set and return
accessResolved(m, id) ==
  resolve([m EXCEPT !.connections = RegistrySet(@, id, "ftp"),
                    !.attempts[id].phase = "open"], id)

\* await client.access(...) rejected: the catch block
accessRejected(m, id) ==
  reject([m EXCEPT !.attempts[id].phase = "closed"], id, "FTP connection failed")

\* sshClient.on('ready'): hasConnected = true; sshClient.sftp(callback)
onReady(m, id) ==
  [m EXCEPT !.attempts[id].hasConnected = TRUE,
            !.attempts[id].phase = "ready",
            !.attempts[id].cb = TRUE]

\* variant of sftpCallback: the session is stored before err is looked at
sftpCallback_SetFirst(m, id, err) ==
  LET m1 == [m EXCEPT !.attempts[id].cb = FALSE,
                      !.connections = RegistrySet(@, id, "sftp")]
  IN IF err THEN reject(m1, id, "SFTP session failed")
     ELSE resolve([m1 EXCEPT !.attempts[id].phase = "open"], id)

\* the callback of sshClient.sftp
sftpCallback(m, id, err) ==
  LET m1 == [m EXCEPT !.attempts[id].cb = FALSE]
  IN IF err THEN reject(m1, id, "SFTP session failed")
     ELSE resolve([m1 EXCEPT !.connections = RegistrySet(@, id, "sftp"),
                             !.attempts[id].phase = "open"], id)

\* sshClient.on('error')
onError(m, id) ==
  LET m1 == [m EXCEPT !.attempts[id].phase = "errored"]
  IN IF ~m.attempts[id].hasConnected THEN reject(m1, id, "SSH connection failed")
     ELSE m1

\* sshClient.on('close')
onClose(m, id) ==
  LET m1 == [m EXCEPT !.attempts[id].phase = "closed"]
  IN IF ~m.attempts[id].hasConnected
     THEN reject(m1, id, "SSH connection closed before authentication")
     ELSE m1

\* variant of disconnect: the registry entry is kept
disconnect_NoDelete(m, id) ==
  IF id \notin DOMAIN m.connections
  THEN [m EXCEPT !.lastOp = [op |-> "disconnect", id |-> id, result |-> NotFound,
                             called |-> FALSE]]
  ELSE [m EXCEPT !.attempts[id].phase = IF m.connections[id] = "ftp" \/ @ = "closed"
                                         THEN "closed" ELSE "ended",
                 !.lastOp = [op |-> "disconnect", id |-> id, result |-> "ok",
                             called |-> TRUE]]

\* disconnect(connectionId): client.close() / client.end(), then delete
disconnect(m, id) ==
  IF id \notin DOMAIN m.connections
  THEN [m EXCEPT !.lastOp = [op |-> "disconnect", id |-> id, result |-> NotFound,
                             called |-> FALSE]]
  ELSE [m EXCEPT !.attempts[id].phase = IF m.connections[id] = "ftp" \/ @ = "closed"
                                         THEN "closed" ELSE "ended",
                 !.connections = RegistryDelete(@, id),
                 !.lastOp = [op |-> "disconnect", id |-> id, result |-> "ok",
                             called |-> TRUE]]

\* variant of sessionOp: chmod on an FTP session is sent to the client
sessionOp_ChmodFtp(m, op, id, outcome) ==
  LET done(result, called) ==
        [m EXCEPT !.lastOp = [op |-> op, id |-> id, result |-> result, called |-> called]]
  IN IF id \notin DOMAIN m.connections THEN done(NotFound, FALSE)
     ELSE IF m.connections[id] = "ftp" /\ op \in FtpUnsupported \ {"chmod"}
          THEN done(UnsupportedMsg(op), FALSE)
          ELSE IF op = "uploadFile" /\ outcome = "noFile"
               THEN done("Local file not found", FALSE)
               ELSE done(IF outcome = "ok" /\ m.attempts[id].phase = "open"
                         THEN "ok" ELSE "transport error", TRUE)

\* listDirectory, downloadFile, uploadFile, renameFile, deleteFile,
\* getFileStats, chmod, createDirectory: lookup, protocol branch, transport call
sessionOp(m, op, id, outcome) ==
  LET done(result, called) ==
        [m EXCEPT !.lastOp = [op |-> op, id |-> id, result |-> result, called |-> called]]
  IN IF id \notin DOMAIN m.connections THEN done(NotFound, FALSE)
     ELSE IF m.connections[id] = "ftp" /\ op \in FtpUnsupported
          THEN done(UnsupportedMsg(op), FALSE)
          ELSE IF op = "uploadFile" /\ outcome = "noFile"
               THEN done("Local file not found", FALSE)
               ELSE done(IF outcome = "ok" /\ m.attempts[id].phase = "open"
                         THEN "ok" ELSE "transport error", TRUE)

\* ------------------------------------------------- speed limit manager
\* JavaScript numbers used as caps: undefined (no property), Infinity, and
\* the finite values 0..MaxCap
undefined == -1
Infinity == 99
SetValues == (0..MaxCap) \cup {Infinity}
Directions == {"upload", "download"}

\* x || Infinity
OrInfinity(x) == IF x = undefined \/ x = 0 THEN Infinity ELSE x
MathMin(a, b) == IF a <= b THEN a ELSE b

\* the limit manager as one record
Sl == [limits |-> limits, globalLimits |-> globalLimits]

\* {} : an object without properties
EmptyObject == [t \in Directions |-> undefined]

\* variant of setLimit: the value is stored under the other direction
setLimit_Swapped(l, connectionId, type, bytesPerSecond) ==
  LET l1 == IF connectionId \in DOMAIN l.limits THEN l
            ELSE [l EXCEPT !.limits = [i \in DOMAIN l.limits \cup {connectionId} |->
                                         IF i = connectionId THEN EmptyObject ELSE l.limits[i]]]
      other == IF type = "upload" THEN "download" ELSE "upload"
  IN [l1 EXCEPT !.limits[connectionId][other] = bytesPerSecond]

setLimit(l, connectionId, type, bytesPerSecond) ==
  LET l1 == IF connectionId \in DOMAIN l.limits THEN l
            ELSE [l EXCEPT !.limits = [i \in DOMAIN l.limits \cup {connectionId} |->
                                         IF i = connectionId THEN EmptyObject ELSE l.limits[i]]]
  IN [l1 EXCEPT !.limits[connectionId][type] = bytesPerSecond]

getLimit(l, connectionId, type) ==
  IF connectionId \notin DOMAIN l.limits THEN Infinity
  ELSE OrInfinity(l.limits[connectionId][type])

removeConnection(l, connectionId) ==
  [l EXCEPT !.limits = [i \in DOMAIN l.limits \ {connectionId} |-> l.limits[i]]]

\* this.globalLimits is undefined (<<>>) until the first setGlobalLimit
setGlobalLimit(l, type, bytesPerSecond) ==
  LET g == IF l.globalLimits = <<>> THEN EmptyObject ELSE l.globalLimits[1]
  IN [l EXCEPT !.globalLimits = <<[g EXCEPT ![type] = bytesPerSecond]>>]

\* (this.globalLimits && this.globalLimits[type]) || Infinity
globalLimit(l, type) ==
  IF l.globalLimits = <<>> THEN Infinity ELSE OrInfinity(l.globalLimits[1][type])

\* variant of getEffectiveLimit: the global cap is not consulted
getEffectiveLimit_ConnOnly(l, connectionId, type) ==
  getLimit(l, connectionId, type)

getEffectiveLimit(l, connectionId, type) ==
  MathMin(getLimit(l, connectionId, type), globalLimit(l, type))

\* ConnectionManager.getSpeedLimits
getSpeedLimits(l, connectionId) ==
  [upload |-> getLimit(l, connectionId, "upload"),
   download |-> getLimit(l, connectionId, "download"),
   globalUpload |-> globalLimit(l, "upload"),
   globalDownload |-> globalLimit(l, "download")]

\* ------------------------------------------------- manager actions
\* ids a caller may pass: 0 was never returned by connect
CallIds == 0..MaxConnects
Attempted == 1..Len(attempts)

ManagerInit ==
  /\ connections = <<>>
  /\ attempts = <<>>
  /\ lastOp = [op |-> "none", id |-> 0, result |-> "none", called |-> FALSE]
  /\ limits = <<>>
  /\ globalLimits = <<>>
  /\ sets = 0

Connect(protocol, auth) ==
  /\ Len(attempts) < MaxConnects
  /\ BecomeCm(connect(Cm, protocol, auth))
  /\ UNCHANGED <<queueVars, limitVars, auxVars>>

FtpAccessResolves(id) ==
  /\ attempts[id].phase = "access"
  /\ BecomeCm(accessResolved(Cm, id))
  /\ UNCHANGED <<queueVars, limitVars, auxVars>>

FtpAccessRejects(id) ==
  /\ attempts[id].phase = "access"
  /\ BecomeCm(accessRejected(Cm, id))
  /\ UNCHANGED <<queueVars, limitVars, auxVars>>

\* the server drops the control connection of an established FTP session;
\* no listener is registered on the client
FtpCloses(id) ==
  /\ attempts[id].protocol \in {"ftp", "ftps"}
  /\ attempts[id].phase = "open"
  /\ BecomeCm([Cm EXCEPT !.attempts[id].phase = "closed"])
  /\ UNCHANGED <<queueVars, limitVars, auxVars>>

SshReady(id) ==
  /\ attempts[id].phase = "connecting"
  /\ BecomeCm(onReady(Cm, id))
  /\ UNCHANGED <<queueVars, limitVars, auxVars>>

\* the sftp callback: with or without err while the connection is up, with
\* err once it is down
SftpCallback(id, err) ==
  /\ attempts[id].cb
  /\ attempts[id].phase # "ready" => err
  /\ BecomeCm(sftpCallback(Cm, id, err))
  /\ UNCHANGED <<queueVars, limitVars, auxVars>>

\* the ssh2 client emits 'error' on a connection that is not down yet
SshError(id) ==
  /\ attempts[id].protocol = "sftp"
  /\ attempts[id].phase \in {"connecting", "ready", "open"}
  /\ BecomeCm(onError(Cm, id))
  /\ UNCHANGED <<queueVars, limitVars, auxVars>>

\* the ssh2 client emits 'close': after an error, after end(), or because
\* the server went away
SshClose(id) ==
  /\ attempts[id].protocol = "sftp"
  /\ attempts[id].phase \in {"connecting", "ready", "open", "errored", "ended"}
  /\ BecomeCm(onClose(Cm, id))
  /\ UNCHANGED <<queueVars, limitVars, auxVars>>

Disconnect(id) ==
  /\ BecomeCm(disconnect(Cm, id))
  /\ UNCHANGED <<queueVars, limitVars, auxVars>>

SessionOp(op, id, outcome) ==
  /\ outcome = "noFile" => op = "uploadFile"
  /\ BecomeCm(sessionOp(Cm, op, id, outcome))
  /\ UNCHANGED <<queueVars, limitVars, auxVars>>

SetSpeedLimit(id, type, v) ==
  /\ sets < MaxSets
  /\ sets' = sets + 1
  /\ limits' = setLimit(Sl, id, type, v).limits
  /\ UNCHANGED <<globalLimits, queueVars, cmVars, auxVars>>

SetGlobalSpeedLimit(type, v) ==
  /\ sets < MaxSets
  /\ sets' = sets + 1
  /\ globalLimits' = setGlobalLimit(Sl, type, v).globalLimits
  /\ UNCHANGED <<limits, queueVars, cmVars, auxVars>>

\* sessions: connects, transport events, session operations, disconnects
ConnNext ==
  \/ \E protocol \in Protocols, auth \in Auths : Connect(protocol, auth)
  \/ \E id \in Attempted : FtpAccessResolves(id)
  \/ \E id \in Attempted : FtpAccessRejects(id)
  \/ \E id \in Attempted : FtpCloses(id)
  \/ \E id \in Attempted : SshReady(id)
  \/ \E id \in Attempted, err \in BOOLEAN : SftpCallback(id, err)
  \/ \E id \in Attempted : SshError(id)
  \/ \E id \in Attempted : SshClose(id)
  \/ \E id \in CallIds : Disconnect(id)
  \/ \E op \in SessionOps, id \in CallIds, outcome \in Outcomes \cup {"noFile"} :
       SessionOp(op, id, outcome)

\* speed limits of FTP sessions: connects, limit settings, disconnects
LimitNext ==
  \/ Connect("ftp", "password")
  \/ \E id \in Attempted : FtpAccessResolves(id)
  \/ \E id \in CallIds : Disconnect(id)
  \/ \E id \in CallIds, type \in Directions, v \in SetValues : SetSpeedLimit(id, type, v)
  \/ \E type \in Directions, v \in SetValues : SetGlobalSpeedLimit(type, v)

\* ------------------------------------------------- SpeedLimiter
\* The clock counts ticks since this.startTime and a cap is a number of bytes
\* per tick, so that elapsed * maxBytesPerSecond is the code's expectedBytes.
\* A delay is kept multiplied by the cap (wait = excessBytes), which keeps
\* excessBytes / maxBytesPerSecond exact.
NoLimiter == [on |-> FALSE, maxBytesPerSecond |-> Infinity, elapsed |-> 0,
              totalBytes |-> 0, held |-> 0, wait |-> 0, since |-> 0, pushed |-> 0]

\* constructor(options): options.maxBytesPerSecond || Infinity
newSpeedLimiter(v) ==
  [NoLimiter EXCEPT !.on = TRUE, !.maxBytesPerSecond = OrInfinity(v)]

\* variant of transform: the excess is computed without the chunk
transform_NoChunk(l, len) ==
  IF l.maxBytesPerSecond = Infinity
  THEN [l EXCEPT !.pushed = @ + len]
  ELSE LET expectedBytes == l.elapsed * l.maxBytesPerSecond
       IN IF l.totalBytes + len <= expectedBytes
          THEN [l EXCEPT !.totalBytes = @ + len, !.pushed = @ + len]
          ELSE IF l.totalBytes - expectedBytes <= 0
               THEN [l EXCEPT !.totalBytes = @ + len, !.pushed = @ + len]
               ELSE [l EXCEPT !.held = len,
                              !.wait = l.totalBytes - expectedBytes,
                              !.since = l.elapsed]

\* _transform(chunk, encoding, callback) up to callback() or setTimeout
transform(l, len) ==
  IF l.maxBytesPerSecond = Infinity
  THEN [l EXCEPT !.pushed = @ + len]
  ELSE LET expectedBytes == l.elapsed * l.maxBytesPerSecond
       IN IF l.totalBytes + len <= expectedBytes
          THEN [l EXCEPT !.totalBytes = @ + len, !.pushed = @ + len]
          ELSE [l EXCEPT !.held = len,
                         !.wait = (l.totalBytes + len) - expectedBytes,
                         !.since = l.elapsed]

\* the setTimeout callback of _transform
afterWait(l) ==
  [l EXCEPT !.totalBytes = @ + l.held, !.pushed = @ + l.held, !.held = 0]

\* ------------------------------------------------- uploadFile, downloadFile
\* One run of a transfer handler of the main process. The clock counts ticks
\* of 10 s since startTime; a cap is a number of bytes per tick.
TimeoutMsg == "Upload timeout - operation took too long"

NoTransfer ==
  [state |-> "idle", item |-> 0, id |-> 0, op |-> "none", type |-> "none",
   speedLimit |-> undefined, total |-> 0, transferred |-> 0, chunks |-> 0,
   reports |-> 0, elapsed |-> 0, uploadTimeout |-> "none", transport |-> "none",
   returnedAt |-> undefined, result |-> "pending"]

\* resolve() / reject(): a promise settles once
settle(x, r) == IF x.result = "pending" THEN [x EXCEPT !.result = r] ELSE x

\* variant of sftpUpload: the setTimeout is missing
sftpUpload_NoTimeout(x, l, id) ==
  [x EXCEPT !.speedLimit = getEffectiveLimit(l, id, "upload"),
            !.transport = "running"]

\* the sftp branch of uploadFile up to the call of fastPut
sftpUpload(x, l, id) ==
  [x EXCEPT !.speedLimit = getEffectiveLimit(l, id, "upload"),
            !.uploadTimeout = "pending",
            !.transport = "running"]

\* uploadFile up to its first await or to the call of fastPut
uploadFile(c, l, item, id, exists, size) ==
  LET x == [NoTransfer EXCEPT !.state = "running", !.item = item, !.id = id,
                            !.op = "uploadFile"]
  IN IF id \notin DOMAIN c THEN settle(x, NotFound)
     ELSE IF ~exists THEN settle(x, "Local file not found")
     ELSE LET x1 == [x EXCEPT !.type = c[id], !.total = size]
          IN IF c[id] = "ftp" THEN [x1 EXCEPT !.transport = "running"]
             ELSE sftpUpload(x1, l, id)

\* downloadFile up to its first await or to the call of sftp.stat
downloadFile(c, item, id, size) ==
  LET x == [NoTransfer EXCEPT !.state = "running", !.item = item, !.id = id,
                            !.op = "downloadFile"]
  IN IF id \notin DOMAIN c THEN settle(x, NotFound)
     ELSE LET x1 == [x EXCEPT !.type = c[id], !.total = size]
          IN IF c[id] = "ftp" THEN [x1 EXCEPT !.transport = "running"]
             ELSE [x1 EXCEPT !.transport = "stat"]

\* the callback of sftp.stat in downloadFile, up to the call of fastGet
statCallback(x, l, id, err) ==
  IF err THEN settle([x EXCEPT !.transport = "done"], "Failed to get file info")
  ELSE [x EXCEPT !.speedLimit = getEffectiveLimit(l, id, "download"),
                 !.transport = "running"]

\* options.step(total_transferred, chunk, total): when the limiter finds the
\* transfer ahead of its budget it returns the delay promise and the
\* progressCallback below is not reached
step(x, chunk) ==
  LET totalTransferred == x.transferred + chunk
      x1 == [x EXCEPT !.transferred = totalTransferred, !.chunks = @ + 1]
  IN IF x.speedLimit # Infinity /\ totalTransferred > x.elapsed * x.speedLimit
     THEN x1
     ELSE [x1 EXCEPT !.reports = @ + 1]

\* basic-ftp moves a chunk inside uploadFrom / downloadTo: neither is given
\* a progress handler nor a limiter
ftpChunk(x, chunk) ==
  [x EXCEPT !.transferred = @ + chunk, !.chunks = @ + 1]

\* await client.uploadFrom / downloadTo settles
ftpReturns(x, ok) ==
  settle([x EXCEPT !.transport = "done", !.returnedAt = x.elapsed],
         IF ok THEN "ok" ELSE "transport error")

\* the callback of fastPut: clearTimeout, then reject, utimes or resolve
fastPutCallback(x, code, preserve) ==
  LET x1 == [x EXCEPT !.returnedAt = x.elapsed,
                      !.uploadTimeout = IF @ = "pending" THEN "cleared" ELSE @]
  IN IF code = 3 THEN settle([x1 EXCEPT !.transport = "done"], "Permission denied")
     ELSE IF code = 2
          THEN settle([x1 EXCEPT !.transport = "done"], "Remote directory does not exist")
          ELSE IF code # 0 THEN settle([x1 EXCEPT !.transport = "done"], "Upload failed")
               ELSE IF preserve THEN [x1 EXCEPT !.transport = "utimes"]
                    ELSE settle([x1 EXCEPT !.transport = "done"], "ok")

\* the callback of sftp.utimes: resolve() whether or not tsErr
utimesCallback(x) == settle([x EXCEPT !.transport = "done"], "ok")

\* the callback of fastGet
fastGetCallback(x, err) ==
  settle([x EXCEPT !.transport = "done", !.returnedAt = x.elapsed],
         IF err THEN "Download failed" ELSE "ok")

\* the callback of uploadTimeout
uploadTimeoutFires(x) ==
  settle([x EXCEPT !.uploadTimeout = "fired"], TimeoutMsg)

\* ------------------------------------------------- TabManager
null == 0

\* the tab manager and the renderer's globals as one record
Tm == [tabs |-> tabs, activeTabId |-> activeTabId, tabCounter |-> tabCounter,
       currentConn |-> currentConn, windowConn |-> windowConn,
       controls |-> controls, sessions |-> sessions]

BecomeTm(m) ==
  /\ tabs' = m.tabs
  /\ activeTabId' = m.activeTabId
  /\ tabCounter' = m.tabCounter
  /\ currentConn' = m.currentConn
  /\ windowConn' = m.windowConn
  /\ controls' = m.controls
  /\ sessions' = m.sessions

\* restoreTabState: assigns the property window.currentConnection, the
\* module variable currentConnection is not assigned; enableControls
restoreTabState(m, tabId) ==
  IF tabId \notin DOMAIN m.tabs THEN m
  ELSE [m EXCEPT !.windowConn = m.tabs[tabId],
                 !.controls = m.tabs[tabId] # null]

switchToTab(m, tabId) ==
  IF tabId \notin DOMAIN m.tabs THEN m
  ELSE restoreTabState([m EXCEPT !.activeTabId = tabId], tabId)

createTab(m) ==
  LET tabId == m.tabCounter + 1
  IN switchToTab([m EXCEPT !.tabCounter = tabId,
                           !.tabs = [i \in DOMAIN m.tabs \cup {tabId} |->
                                       IF i = tabId THEN null ELSE m.tabs[i]]],
                 tabId)

\* the last key of Array.from(this.tabs.keys()): the tab created last
LastKey(ts) == CHOOSE i \in DOMAIN ts : \A j \in DOMAIN ts : j <= i

closeTab(m, tabId) ==
  IF tabId \notin DOMAIN m.tabs THEN m
  ELSE LET m1 == [m EXCEPT !.sessions = @ \ {m.tabs[tabId]},
                           !.tabs = [i \in DOMAIN m.tabs \ {tabId} |-> m.tabs[i]]]
       IN IF m.activeTabId # tabId THEN m1
          ELSE IF DOMAIN m1.tabs # {} THEN switchToTab(m1, LastKey(m1.tabs))
               ELSE createTab(m1)

\* updateCurrentTab({ connection: c })
updateCurrentTab(m, c) ==
  IF m.activeTabId \notin DOMAIN m.tabs THEN m
  ELSE [m EXCEPT !.tabs[m.activeTabId] = c]

\* the connect handlers after 'connect-ftp' returned { success, connectionId }
connected(m, connectionId) ==
  updateCurrentTab([m EXCEPT !.sessions = @ \cup {connectionId},
                             !.currentConn = connectionId,
                             !.controls = TRUE], connectionId)

\* disconnect() of the renderer
disconnectCurrent(m) ==
  IF m.currentConn = null THEN m
  ELSE updateCurrentTab([m EXCEPT !.sessions = @ \ {m.currentConn},
                                  !.currentConn = null,
                                  !.controls = FALSE], null)

\* after DOMContentLoaded: window.currentConnection = currentConnection and
\* tabManager.createTab()
TabInit ==
  /\ tabs = [i \in {1} |-> null]
  /\ activeTabId = 1
  /\ tabCounter = 1
  /\ currentConn = null
  /\ windowConn = null
  /\ controls = FALSE
  /\ sessions = {}
  /\ sessionCounter = 0
  /\ target = null

\* ------------------------------------------------- compareSyncFiles
\* a file list entry is [path, size, modified]; relative paths are numbers
SyncDirections == {"upload", "download", "bidirectional"}

NoSync == [called |-> FALSE, localFiles |-> <<>>, remoteFiles |-> <<>>,
           direction |-> "upload", deleteExtra |-> FALSE, overwriteNewer |-> FALSE,
           actions |-> <<>>]

\* new Map(files.map(f => [f.path, f])).has(path)
MapHas(files, path) == \E k \in 1..Len(files) : files[k].path = path
\* new Map(files.map(f => [f.path, f])).get(path): a later entry replaces
\* an earlier one with the same key
MapGet(files, path) ==
  files[CHOOSE k \in 1..Len(files) :
          /\ files[k].path = path
          /\ \A j \in 1..Len(files) : files[j].path = path => j <= k]

\* the test of the else-if branches: sizes differ, or overwriteNewer, or
\* the source is newer
Different(src, dst, overwriteNewer) ==
  src.size # dst.size \/ (overwriteNewer \/ src.modified > dst.modified)

RECURSIVE Transfers(_, _, _, _)
\* the loop over the source list: one action of the given type for every
\* file that is missing from, or different in, the other list
Transfers(type, srcFiles, dstFiles, overwriteNewer) ==
  IF srcFiles = <<>> THEN <<>>
  ELSE LET f == Head(srcFiles)
           rest == Transfers(type, Tail(srcFiles), dstFiles, overwriteNewer)
       IN IF ~MapHas(dstFiles, f.path) \/ Different(f, MapGet(dstFiles, f.path), overwriteNewer)
          THEN <<[type |-> type, file |-> f.path]>> \o rest
          ELSE rest

RECURSIVE Deletes(_, _, _)
\* the loop that deletes what the source does not have
Deletes(type, files, srcFiles) ==
  IF files = <<>> THEN <<>>
  ELSE LET rest == Deletes(type, Tail(files), srcFiles)
       IN IF ~MapHas(srcFiles, Head(files).path)
          THEN <<[type |-> type, file |-> Head(files).path]>> \o rest
          ELSE rest

compareSyncFiles(localFiles, remoteFiles, direction, deleteExtra, overwriteNewer) ==
  (IF direction \in {"upload", "bidirectional"}
   THEN Transfers("upload", localFiles, remoteFiles, overwriteNewer)
        \o (IF deleteExtra /\ direction = "upload"
            THEN Deletes("delete-remote", remoteFiles, localFiles) ELSE <<>>)
   ELSE <<>>)
  \o
  (IF direction \in {"download", "bidirectional"}
   THEN Transfers("download", remoteFiles, localFiles, overwriteNewer)
        \o (IF deleteExtra /\ direction = "download"
            THEN Deletes("delete-local", localFiles, remoteFiles) ELSE <<>>)
   ELSE <<>>)

\* the directories scanDirectory can report: each relative path absent
\* (size 0 here) or present once with a size and a modification time
Trees == {tree \in [1..MaxFiles -> [size : 0..MaxStamp, modified : 1..MaxStamp]] :
            \A p \in 1..MaxFiles : tree[p].size = 0 => tree[p].modified = 1}
RECURSIVE ListFrom(_, _)
ListFrom(tree, p) ==
  IF p > MaxFiles THEN <<>>
  ELSE (IF tree[p].size = 0 THEN <<>>
        ELSE <<[path |-> p, size |-> tree[p].size, modified |-> tree[p].modified]>>)
       \o ListFrom(tree, p + 1)

\* ------------------------------------------------- createDirectory (sftp)
\* remotePath is '/s1/s2/.../sn'; currentPath after k path.join calls is its
\* k-th prefix. The server has, for each prefix, nothing, a directory or a
\* regular file.
Kinds == {"absent", "dir", "file"}
SSH_FX_NO_SUCH_FILE == 2
SSH_FX_PERMISSION_DENIED == 3
SSH_FX_FAILURE == 4

NoCall == [state |-> "idle", n |-> 0, index |-> 0, result |-> "none", segment |-> 0]

\* createNext(index): resolve() past the last part, else path.join and
\* sftp.stat(currentPath, ...); index counts the prefixes, from 1
createNext(m, index) ==
  IF index > m.n THEN [m EXCEPT !.state = "done", !.result = "ok"]
  ELSE [m EXCEPT !.state = "stat", !.index = index]

\* createDirectory on an sftp connection up to the first sftp.stat
createDirectory(n) == createNext([NoCall EXCEPT !.n = n], 1)

\* the callback of sftp.stat: !err && stats.isDirectory()
statCallback_mk(m, isDirectory) ==
  IF isDirectory THEN createNext(m, m.index + 1)
  ELSE [m EXCEPT !.state = "mkdir"]

\* the callback of sftp.mkdir: mkdirErr && mkdirErr.code !== 4
mkdirCallback(m, code) ==
  IF code # 0 /\ code # 4
  THEN [m EXCEPT !.state = "done", !.result = "Failed to create directory",
                 !.segment = m.index]
  ELSE createNext(m, m.index + 1)

\* what the server holds above the k-th prefix
Parent(r, k) == IF k = 1 THEN "dir" ELSE r[k - 1]

AuxInit ==
  /\ limiter = NoLimiter
  /\ xfer = NoTransfer
  /\ remote = [k \in 1..MaxDepth |-> "absent"]
  /\ mk = NoCall
  /\ TabInit
  /\ sync = NoSync

NewSpeedLimiter(v) ==
  /\ ~limiter.on
  /\ limiter' = newSpeedLimiter(v)
  /\ UNCHANGED <<queueVars, cmVars, limitVars, xfer, restVars>>

\* the clock advances
LimiterTick ==
  /\ limiter.on
  /\ limiter.elapsed < MaxTicks
  /\ limiter' = [limiter EXCEPT !.elapsed = @ + 1]
  /\ UNCHANGED <<queueVars, cmVars, limitVars, xfer, restVars>>

\* the stream hands over the next chunk once the previous callback ran
Transform(len) ==
  /\ limiter.on
  /\ limiter.held = 0
  /\ limiter.pushed + len <= MaxTicks * MaxCap
  /\ limiter' = transform(limiter, len)
  /\ UNCHANGED <<queueVars, cmVars, limitVars, xfer, restVars>>

\* a timer runs its callback once its delay has passed, or later
WaitEnds ==
  /\ limiter.on
  /\ limiter.held > 0
  /\ (limiter.elapsed - limiter.since) * limiter.maxBytesPerSecond >= limiter.wait
  /\ limiter' = afterWait(limiter)
  /\ UNCHANGED <<queueVars, cmVars, limitVars, xfer, restVars>>

LimiterNext ==
  \/ \E v \in SetValues \cup {undefined} : NewSpeedLimiter(v)
  \/ LimiterTick
  \/ \E len \in 1..MaxChunk : Transform(len)
  \/ WaitEnds

\* ----------------------------------------------------------- actions
Ids == 1..queueId

Init ==
  /\ items = <<>>
  /\ queue = <<>>
  /\ activeTransfers = {}
  /\ isPaused = FALSE
  /\ queueId = 0
  /\ inflight = <<>>
  /\ timers = 0
  /\ ops = 0
  /\ ManagerInit
  /\ AuxInit

\* a control call (a button of the queue panel) uses up one of MaxOps
Control ==
  /\ ops < MaxOps
  /\ ops' = ops + 1

\* uploadFile() of the renderer enqueues the selected file
AddTransfer ==
  /\ queueId < MaxAdds
  /\ Become(addTransfer(St, transferOf("uploadFile")))
  /\ UNCHANGED ops

\* any of the enqueueing functions runs up to its addTransfer call
Enqueue(site) ==
  /\ queueId < MaxAdds
  /\ Become(addTransfer(St, transferOf(site)))
  /\ UNCHANGED ops

PauseTransfer(id) ==
  /\ InQueue(St, id) /\ items[id].status = "active"
  /\ Become(pauseTransfer(St, id))
  /\ Control

ResumeTransfer(id) ==
  /\ InQueue(St, id) /\ items[id].status = "paused"
  /\ Become(resumeTransfer(St, id))
  /\ Control

CancelTransfer(id) ==
  /\ InQueue(St, id)
  /\ Become(cancelTransfer(St, id))
  /\ Control

PauseAll ==
  /\ Become(pauseAll(St))
  /\ Control

ResumeAll ==
  /\ Become(resumeAll(St))
  /\ Control

ClearCompleted ==
  /\ Become(clearCompleted(St))
  /\ Control

\* main sends 'transfer-progress' only while the invocation runs
TransferProgress(id, p) ==
  /\ inflight[id] > 0
  /\ InQueue(St, id)
  /\ Become(onTransferProgress(St, id, p))
  /\ UNCHANGED ops

\* an invocation returns { success: true }
TransferSucceeds(id) ==
  /\ inflight[id] > 0
  /\ timers < MaxTimers
  /\ Become(processQueueAfter(executeSuccess(St, id), id))
  /\ UNCHANGED ops

\* an invocation returns { success: false, error: msg }
TransferFails(id, msg) ==
  /\ inflight[id] > 0
  /\ timers < MaxTimers
  /\ Become(processQueueAfter(processQueueCatch(executeFailure(St, id, msg), id, msg), id))
  /\ UNCHANGED ops

\* the callback of setTimeout(() => this.processQueue(), 100) runs
TimerFires ==
  /\ timers > 0
  /\ Become(processQueue([St EXCEPT !.timers = @ - 1]))
  /\ UNCHANGED ops

Next ==
  \/ AddTransfer
  \/ \E id \in Ids : PauseTransfer(id)
  \/ \E id \in Ids : ResumeTransfer(id)
  \/ \E id \in Ids : CancelTransfer(id)
  \/ PauseAll
  \/ ResumeAll
  \/ ClearCompleted
  \/ \E id \in Ids, p \in Payloads : TransferProgress(id, p)
  \/ \E id \in Ids : TransferSucceeds(id)
  \/ \E id \in Ids, msg \in Msgs : TransferFails(id, msg)
  \/ TimerFires

Spec == Init /\ [][Next]_vars

\* the scheduling the event loop guarantees: a due timer callback runs, and
\* every invocation issued to the main process returns
Fairness ==
  /\ WF_vars(TimerFires)
  /\ \A id \in 1..MaxAdds :
       WF_vars(id \in Ids /\ (TransferSucceeds(id) \/ \E msg \in Msgs : TransferFails(id, msg)))

\* the queue when it is never globally paused: single-item controls,
\* completions, failures and timers only
LiveNext ==
  \/ AddTransfer
  \/ \E id \in Ids : PauseTransfer(id)
  \/ \E id \in Ids : ResumeTransfer(id)
  \/ \E id \in Ids : CancelTransfer(id)
  \/ \E id \in Ids : TransferSucceeds(id)
  \/ \E id \in Ids, msg \in Msgs : TransferFails(id, msg)
  \/ TimerFires

LiveSpec == Init /\ [][LiveNext]_vars /\ Fairness

\* the queue as the enqueueing functions of the renderer fill it
EnqNext == \E site \in Sites : Enqueue(site)

EnqSpec == Init /\ [][EnqNext]_vars

\* the queue under the global controls only: adds, pauseAll, resumeAll,
\* completions, failures and timers
GlobalNext ==
  \/ AddTransfer
  \/ PauseAll
  \/ ResumeAll
  \/ \E id \in Ids : TransferSucceeds(id)
  \/ \E id \in Ids, msg \in Msgs : TransferFails(id, msg)
  \/ TimerFires

GlobalSpec == Init /\ [][GlobalNext]_vars /\ Fairness

ConnSpec == Init /\ [][ConnNext]_vars

LimitSpec == Init /\ [][LimitNext]_vars

LimiterSpec == Init /\ [][LimiterNext]_vars

\* ------------------------------------------------- transfer handler actions
\* The ipc handler calls uploadFile or downloadFile for an invocation of the
\* renderer that is waiting for its result. The value the renderer holds in
\* currentConnection is one of CallIds; an item enqueued without connectionId
\* sends undefined.
HandlerStarts(item, id, exists, size) ==
  /\ inflight[item] > 0
  /\ xfer.state \in {"idle", "returned"}
  /\ xfer.transport \in {"none", "done"}
  /\ LET cid == IF items[item].connectionId = "undefined" THEN 0 ELSE id
     IN xfer' = IF items[item].type = "upload"
                THEN uploadFile(connections, Sl, item, cid, exists, size)
                ELSE downloadFile(connections, item, cid, size)
  /\ UNCHANGED <<queueVars, cmVars, limitVars, limiter, restVars>>

StatCallback(err) ==
  /\ xfer.transport = "stat"
  /\ xfer' = statCallback(xfer, Sl, xfer.id, err)
  /\ UNCHANGED <<queueVars, cmVars, limitVars, limiter, restVars>>

\* the transport moves the next chunk of an SFTP transfer and calls step
Step(chunk) ==
  /\ xfer.type = "sftp"
  /\ xfer.transport = "running"
  /\ xfer.transferred + chunk <= xfer.total
  /\ xfer' = step(xfer, chunk)
  /\ UNCHANGED <<queueVars, cmVars, limitVars, limiter, restVars>>

\* the transport moves the next chunk of an FTP transfer
FtpChunk(chunk) ==
  /\ xfer.type = "ftp"
  /\ xfer.transport = "running"
  /\ xfer.transferred + chunk <= xfer.total
  /\ xfer' = ftpChunk(xfer, chunk)
  /\ UNCHANGED <<queueVars, cmVars, limitVars, limiter, restVars>>

\* the clock advances; a timer that is due runs before the clock moves on
TransferTick ==
  /\ xfer.state = "running"
  /\ xfer.transport \in {"running", "stat", "utimes"}
  /\ xfer.elapsed < MaxTicks
  /\ ~(xfer.uploadTimeout = "pending" /\ xfer.elapsed >= UploadTimeoutTicks)
  /\ xfer' = [xfer EXCEPT !.elapsed = @ + 1]
  /\ UNCHANGED <<queueVars, cmVars, limitVars, limiter, restVars>>

UploadTimeoutFires ==
  /\ xfer.uploadTimeout = "pending"
  /\ xfer.elapsed >= UploadTimeoutTicks
  /\ xfer' = uploadTimeoutFires(xfer)
  /\ UNCHANGED <<queueVars, cmVars, limitVars, limiter, restVars>>

\* the transport call ends: with success only when the whole file has moved
FtpReturns(ok) ==
  /\ xfer.type = "ftp"
  /\ xfer.transport = "running"
  /\ ok => xfer.transferred = xfer.total
  /\ xfer' = ftpReturns(xfer, ok)
  /\ UNCHANGED <<queueVars, cmVars, limitVars, limiter, restVars>>

FastPutCallback(code, preserve) ==
  /\ xfer.type = "sftp" /\ xfer.op = "uploadFile"
  /\ xfer.transport = "running"
  /\ code = 0 => xfer.transferred = xfer.total
  /\ xfer' = fastPutCallback(xfer, code, preserve)
  /\ UNCHANGED <<queueVars, cmVars, limitVars, limiter, restVars>>

UtimesCallback ==
  /\ xfer.transport = "utimes"
  /\ xfer' = utimesCallback(xfer)
  /\ UNCHANGED <<queueVars, cmVars, limitVars, limiter, restVars>>

FastGetCallback(err) ==
  /\ xfer.type = "sftp" /\ xfer.op = "downloadFile"
  /\ xfer.transport = "running"
  /\ ~err => xfer.transferred = xfer.total
  /\ xfer' = fastGetCallback(xfer, err)
  /\ UNCHANGED <<queueVars, cmVars, limitVars, limiter, restVars>>

\* the ipc handler returns { success } to the renderer, whose executeTransfer
\* and processQueue continue after their awaits
HandlerReturns ==
  /\ xfer.state = "running"
  /\ xfer.result # "pending"
  /\ timers < MaxTimers
  /\ BecomeSt(IF xfer.result = "ok"
              THEN processQueueAfter(executeSuccess(St, xfer.item), xfer.item)
              ELSE processQueueAfter(processQueueCatch(
                     executeFailure(St, xfer.item, xfer.result), xfer.item, xfer.result),
                     xfer.item))
  /\ xfer' = [xfer EXCEPT !.state = "returned"]
  /\ UNCHANGED <<ops, cmVars, limitVars, limiter, restVars>>

\* one transfer of one session: a connect that succeeds, one limit setting,
\* one item enqueued by any of the enqueueing functions, and the handler with
\* its transport and timers
TransferNext ==
  \/ \E protocol \in {"ftp", "ftps", "sftp"} :
       attempts = <<>> /\ Connect(protocol, "password")
  \/ \E id \in Attempted : FtpAccessResolves(id)
  \/ \E id \in Attempted : SshReady(id)
  \/ \E id \in Attempted : SftpCallback(id, FALSE)
  \/ \E id \in CallIds, type \in Directions, v \in SetValues :
       sets = 0 /\ SetSpeedLimit(id, type, v)
  \/ \E type \in Directions, v \in SetValues :
       sets = 0 /\ SetGlobalSpeedLimit(type, v)
  \/ \E site \in Sites : queueId = 0 /\ Enqueue(site)
  \/ TimerFires
  \/ \E item \in Ids, id \in CallIds, exists \in BOOLEAN, size \in 1..MaxSize :
       HandlerStarts(item, id, exists, size)
  \/ \E err \in BOOLEAN : StatCallback(err)
  \/ \E chunk \in 1..MaxChunk : Step(chunk)
  \/ \E chunk \in 1..MaxChunk : FtpChunk(chunk)
  \/ TransferTick
  \/ UploadTimeoutFires
  \/ \E ok \in BOOLEAN : FtpReturns(ok)
  \/ \E code \in {0, 2, 3, 4}, preserve \in BOOLEAN : FastPutCallback(code, preserve)
  \/ UtimesCallback
  \/ \E err \in BOOLEAN : FastGetCallback(err)
  \/ HandlerReturns

TransferSpec == Init /\ [][TransferNext]_vars

\* ------------------------------------------------- createDirectory actions
NotFs == <<queueVars, cmVars, limitVars, limiter, xfer, tabVars, sync>>

\* another client creates a directory or a file where nothing is yet
RemoteCreates(k, kind) ==
  /\ remote[k] = "absent"
  /\ Parent(remote, k) = "dir"
  /\ remote' = [remote EXCEPT ![k] = kind]
  /\ UNCHANGED <<mk, NotFs>>

CreateDirectory(n) ==
  /\ mk.state \in {"idle", "done"}
  /\ mk' = createDirectory(n)
  /\ UNCHANGED <<remote, NotFs>>

\* the server answers stat: attributes of what is there, an error when
\* nothing is there or when it refuses
StatAnswers(refused) ==
  /\ mk.state = "stat"
  /\ mk' = statCallback_mk(mk, ~refused /\ remote[mk.index] = "dir")
  /\ UNCHANGED <<remote, NotFs>>

\* the server answers mkdir: done; SSH_FX_FAILURE when the name exists or
\* for any failure it has no other code for; SSH_FX_NO_SUCH_FILE without a
\* parent directory; SSH_FX_PERMISSION_DENIED
MkdirAnswers(code) ==
  /\ mk.state = "mkdir"
  /\ code = 0 => remote[mk.index] = "absent" /\ Parent(remote, mk.index) = "dir"
  /\ remote[mk.index] # "absent" => code = SSH_FX_FAILURE
  /\ code = SSH_FX_NO_SUCH_FILE => Parent(remote, mk.index) # "dir"
  /\ Parent(remote, mk.index) \in {"absent", "file"} => code # SSH_FX_PERMISSION_DENIED
  /\ remote' = IF code = 0 THEN [remote EXCEPT ![mk.index] = "dir"] ELSE remote
  /\ mk' = mkdirCallback(mk, code)
  /\ UNCHANGED NotFs

MkdirNext ==
  \/ \E k \in 1..MaxDepth, kind \in {"dir", "file"} : RemoteCreates(k, kind)
  \/ \E n \in 0..MaxDepth : CreateDirectory(n)
  \/ \E refused \in BOOLEAN : StatAnswers(refused)
  \/ \E code \in {0, SSH_FX_NO_SUCH_FILE, SSH_FX_PERMISSION_DENIED, SSH_FX_FAILURE} :
       MkdirAnswers(code)

MkdirSpec == Init /\ [][MkdirNext]_vars

\* ------------------------------------------------- tab actions
NotTabs == <<queueVars, cmVars, limitVars, limiter, xfer, fsVars, sync>>

CreateTab ==
  /\ tabCounter < MaxTabs
  /\ BecomeTm(createTab(Tm))
  /\ UNCHANGED <<sessionCounter, target, NotTabs>>

SwitchToTab(tabId) ==
  /\ tabId \in DOMAIN tabs
  /\ BecomeTm(switchToTab(Tm, tabId))
  /\ UNCHANGED <<sessionCounter, target, NotTabs>>

\* closing the last tab creates a new one
CloseTab(tabId) ==
  /\ tabId \in DOMAIN tabs
  /\ DOMAIN tabs = {tabId} => tabCounter < MaxTabs
  /\ BecomeTm(closeTab(Tm, tabId))
  /\ UNCHANGED <<sessionCounter, target, NotTabs>>

\* the connection dialog is submitted and 'connect-ftp' succeeds
ConnectTab ==
  /\ sessionCounter < MaxSessions
  /\ sessionCounter' = sessionCounter + 1
  /\ BecomeTm(connected(Tm, sessionCounter + 1))
  /\ UNCHANGED <<target, NotTabs>>

\* a click on btn-disconnect
DisconnectTab ==
  /\ controls
  /\ BecomeTm(disconnectCurrent(Tm))
  /\ UNCHANGED <<sessionCounter, target, NotTabs>>

\* any function of the renderer that starts with 'if (!currentConnection)
\* return' and then invokes the main process with currentConnection, such
\* as uploadFile through Ctrl+U
RemoteOperation ==
  /\ currentConn # null
  /\ target' = currentConn
  /\ UNCHANGED <<tabs, activeTabId, tabCounter, currentConn, windowConn, controls,
                 sessions, sessionCounter, NotTabs>>

TabNext ==
  \/ CreateTab
  \/ \E tabId \in 1..MaxTabs : SwitchToTab(tabId)
  \/ \E tabId \in 1..MaxTabs : CloseTab(tabId)
  \/ ConnectTab
  \/ DisconnectTab
  \/ RemoteOperation

TabSpec == Init /\ [][TabNext]_vars

\* ------------------------------------------------- synchronisation actions
\* startSyncPreview scans both directories and compares them
CompareSyncFiles(localTree, remoteTree, direction, deleteExtra, overwriteNewer) ==
  /\ ~sync.called
  /\ LET localFiles == ListFrom(localTree, 1)
         remoteFiles == ListFrom(remoteTree, 1)
     IN sync' = [called |-> TRUE, localFiles |-> localFiles, remoteFiles |-> remoteFiles,
                 direction |-> direction, deleteExtra |-> deleteExtra,
                 overwriteNewer |-> overwriteNewer,
                 actions |-> compareSyncFiles(localFiles, remoteFiles, direction,
                                              deleteExtra, overwriteNewer)]
  /\ UNCHANGED <<queueVars, cmVars, limitVars, limiter, xfer, fsVars, tabVars>>

SyncNext ==
  \E localTree \in Trees, remoteTree \in Trees, direction \in SyncDirections,
     deleteExtra \in BOOLEAN, overwriteNewer \in BOOLEAN :
       CompareSyncFiles(localTree, remoteTree, direction, deleteExtra, overwriteNewer)

SyncSpec == Init /\ [][SyncNext]_vars

TypeOK ==
  /\ queueId \in 0..MaxAdds
  /\ DOMAIN items = 1..queueId
  /\ \A i \in Ids : items[i].status \in Statuses
  /\ activeTransfers \subseteq Ids
  /\ \A i \in Ids : inflight[i] \in 0..(MaxOps + 1)
  /\ timers \in 0..MaxTimers

\* ----------------------------------------------------------- observations
StatusOf(i) == items[i].status
NumStatus(st) == Cardinality({i \in Ids : InQueue(St, i) /\ StatusOf(i) = st})
Min(a, b) == IF a <= b THEN a ELSE b

RECURSIVE SumTo(_, _)
SumTo(f, n) == IF n = 0 THEN 0 ELSE f[n] + SumTo(f, n - 1)
\* invocations issued to the connection manager that have not returned
InFlight == SumTo(inflight, queueId)

\* ----------------------------------------------------------- C1
\* C1: the number of queue items whose status is 'active' never exceeds
\* maxConcurrent, whatever calls, completions and failures have happened.
C1_ActiveBound == NumStatus("active") <= maxConcurrent

\* at capacity with a resumed item waiting for a slot
C1_Witness ==
  /\ NumStatus("active") = maxConcurrent
  /\ \E i \in Ids : InQueue(St, i) /\ StatusOf(i) = "queued" /\ inflight[i] > 0
  /\ ops > 0

\* ----------------------------------------------------------- C2
\* C2: the number of upload/download invocations in flight never exceeds
\* maxConcurrent.
C2_InFlightBound == InFlight <= maxConcurrent

\* ----------------------------------------------------------- C3
\* the transitions of the state machine; <<paused, active>> is paused->queued
\* followed by queued->active inside one resumeTransfer call
AllowedChange ==
  {<<"queued", "active">>, <<"active", "paused">>, <<"paused", "queued">>,
   <<"active", "completed">>, <<"active", "error">>,
   <<"queued", "cancelled">>, <<"active", "cancelled">>, <<"paused", "cancelled">>,
   <<"paused", "active">>}

\* C3: every status change of an item is one of the defined transitions and
\* the status is always one of the six values.
C3_Transitions ==
  [][\A i \in Ids :
       /\ items'[i].status \in Statuses
       /\ items'[i].status # items[i].status
            => <<items[i].status, items'[i].status>> \in AllowedChange]_vars

\* ----------------------------------------------------------- C4
\* C4: an item cancelled while its invocation is in flight stays 'cancelled'
\* with its error field unchanged when that invocation returns.
C4_CancelledStays ==
  [][\A i \in Ids :
       (StatusOf(i) = "cancelled" /\ inflight[i] > 0)
         => (items'[i].status = "cancelled" /\ items'[i].error = items[i].error)]_vars

\* ----------------------------------------------------------- C5
\* C5: progress and speed of an item change only while it is 'active', apart
\* from progress being set to 100 by a completion.
C5_ProgressOnlyActive ==
  [][\A i \in Ids :
       (items'[i].progress # items[i].progress \/ items'[i].speed # items[i].speed)
         => \/ StatusOf(i) = "active"
            \/ /\ items'[i].status = "completed"
               /\ items'[i].progress = 100
               /\ items'[i].speed = items[i].speed]_vars

\* ----------------------------------------------------------- C6
\* nothing but addTransfer calls (and progress events) has happened so far
OnlyAdds == ops = 0 /\ timers = 0 /\ \A i \in Ids : StatusOf(i) \in {"queued", "active"}

\* n adds and then one successful completion, the timer still pending
OneCompleted ==
  /\ ops = 0
  /\ timers = 1
  /\ Cardinality({i \in Ids : StatusOf(i) = "completed"}) = 1
  /\ \A i \in Ids : StatusOf(i) \in {"queued", "active", "completed"}
  /\ NumStatus("active") = Min(queueId, maxConcurrent) - 1
  /\ NumStatus("queued") = queueId - Min(queueId, maxConcurrent)

Started == {i \in Ids : StatusOf(i) = "queued" /\ items'[i].status = "active"}

\* C6: after n addTransfer calls on a fresh queue min(n, k) items are active
\* and the rest queued; a completion starts nothing by itself, and the pass
\* that follows it starts exactly one queued item when there is one.
C6_AddsThenOnePromotion ==
  /\ [](OnlyAdds => /\ NumStatus("active") = Min(queueId, maxConcurrent)
                    /\ NumStatus("queued") = queueId - Min(queueId, maxConcurrent))
  /\ [][(OnlyAdds /\ OneCompleted') => Started = {}]_vars
  /\ [][(OneCompleted /\ timers' = 0 /\ queueId' = queueId)
          => Cardinality(Started) = (IF NumStatus("queued") > 0 THEN 1 ELSE 0)]_vars

\* more adds than slots, one item completed, its pass still pending
C6_Witness ==
  /\ OneCompleted
  /\ queueId > maxConcurrent
  /\ NumStatus("queued") = 1

\* ----------------------------------------------------------- C7
\* C7: an item that becomes 'active' is the earliest-enqueued queued item: no
\* item enqueued before it is left 'queued'.
C7_Fifo ==
  [][\A i \in 1..queueId' :
       (items'[i].status = "active" /\ (i \in Ids => StatusOf(i) # "active"))
         => \A j \in 1..(i - 1) : items'[j].status # "queued"]_vars

\* an item restarted after pause and resume while a later item still waits
C7_Witness ==
  \E i \in Ids, j \in Ids :
    /\ i < j
    /\ StatusOf(i) = "active" /\ inflight[i] = 2
    /\ StatusOf(j) = "queued"

\* ----------------------------------------------------------- C8
\* a queued item with an invocation still in flight: only resumeTransfer
\* produces one
ResumedQueued(i) == i \in Ids /\ StatusOf(i) = "queued" /\ inflight[i] > 0

\* C8: a resumed item (status 'queued') eventually becomes 'active' again when
\* transfers terminate (Fairness) and the queue is never globally paused
\* (LiveNext), a cancel request aside.
C8_ResumedEventuallyActive ==
  \A i \in 1..MaxAdds :
    [](ResumedQueued(i) => <>(i \in Ids /\ StatusOf(i) \in {"active", "cancelled"}))

\* ----------------------------------------------------------- C9
\* C9: cancelTransfer on an item that is completed, error or cancelled changes
\* neither that item nor the rest of the queue.
C9_CancelOnlyLive ==
  [][\A id \in Ids :
       (CancelTransfer(id) /\ StatusOf(id) \in Terminal)
         => (items' = items /\ queue' = queue /\ activeTransfers' = activeTransfers)]_vars

\* ----------------------------------------------------------- C10
\* C10: every 'completed' item has progress 100.
C10_CompletedIs100 ==
  \A i \in Ids : StatusOf(i) = "completed" => items[i].progress = 100

\* ----------------------------------------------------------- C11
\* C11: a failing invocation changes only its own item, whose status becomes
\* 'error' and whose error field is the message of the failure; every other
\* item and the queue order are untouched and a processQueue pass is
\* scheduled; an item in 'error' is never made 'queued' or 'active' again; the
\* pass, when the queue is not globally paused and a slot is free, starts a
\* waiting queued item.
C11_FailureIsolated ==
  /\ [][\A id \in Ids, msg \in Msgs :
          TransferFails(id, msg)
            => /\ items'[id] = [items[id] EXCEPT !.status = "error", !.error = msg]
               /\ \A j \in Ids \ {id} : items'[j] = items[j]
               /\ queue' = queue
               /\ timers' = timers + 1]_vars
  /\ [][\A i \in Ids :
          StatusOf(i) = "error" => items'[i].status \notin {"queued", "active"}]_vars
  /\ [][(TimerFires /\ ~isPaused /\ NumStatus("active") < maxConcurrent
           /\ NumStatus("queued") > 0)
          => Started # {}]_vars

\* with nothing but adds and failures, an item beyond the first maxConcurrent
\* runs: the pass after a failure started it
C11_Witness ==
  /\ ops = 0
  /\ \A i \in Ids : StatusOf(i) \in {"queued", "active", "error"}
  /\ \E i \in Ids : StatusOf(i) = "error" /\ items[i].error \in Msgs
  /\ \E j \in Ids : j > maxConcurrent /\ StatusOf(j) = "active"

\* ----------------------------------------------------------- C12
\* position of an id in a list of ids
Pos(q, i) == CHOOSE k \in 1..Len(q) : q[k] = i

\* C12: a clearCompleted call leaves in the queue exactly the items that were
\* in it with status queued, active or paused, each once and in their former
\* relative order; no item field, the activeTransfers map (hence the active
\* count), the pause flag, the invocations and the timers change.
C12_ClearKeepsLive ==
  [][ClearCompleted
       => /\ \A i \in Ids :
               (\E k \in 1..Len(queue') : queue'[k] = i)
                 <=> (InQueue(St, i) /\ StatusOf(i) \in Live)
          /\ \A a \in 1..Len(queue'), b \in 1..Len(queue') :
               a < b => Pos(queue, queue'[a]) < Pos(queue, queue'[b])
          /\ items' = items
          /\ activeTransfers' = activeTransfers
          /\ isPaused' = isPaused
          /\ inflight' = inflight /\ timers' = timers]_vars

\* an item was cleared from between two live items that are still listed
C12_Witness ==
  \E i \in Ids, j \in Ids, l \in Ids :
    /\ j < i /\ i < l
    /\ ~InQueue(St, i) /\ StatusOf(i) \in Terminal
    /\ InQueue(St, j) /\ StatusOf(j) \in Live
    /\ InQueue(St, l) /\ StatusOf(l) \in Live
    /\ Pos(queue, j) < Pos(queue, l)

\* ----------------------------------------------------------- C13
\* C13: every item in the queue has a connectionId, whichever function of the
\* renderer enqueued it.
C13_HasConnectionId ==
  \A i \in Ids : InQueue(St, i) => items[i].connectionId # "undefined"

\* ----------------------------------------------------------- C14
\* the promise of connect call id is settled with an error
Failed(a) == a.result \notin {"pending", "id"}

\* C14: a connect call that fails (FTP access error, SSH error or close
\* before 'ready', SFTP session failure, unreadable private key, unsupported
\* protocol) returns no id and its id is not in the registry, then or later;
\* the step in which it fails leaves the registry as it was; an id enters
\* the registry only in the step that resolves its connect call.
C14_RegisteredOnlyOnSuccess ==
  /\ [](\A id \in Attempted : Failed(attempts[id]) => id \notin DOMAIN connections)
  /\ [][\A id \in 1..Len(attempts') :
          ((id \notin Attempted \/ attempts[id].result = "pending")
             /\ Failed(attempts'[id]))
            => connections' = connections]_vars
  /\ [][\A id \in DOMAIN connections' \ DOMAIN connections :
          /\ id \in Attempted
          /\ attempts[id].result = "pending"
          /\ attempts'[id].result = "id"]_vars

\* one call failed after 'ready' because the SFTP session was refused while
\* another call succeeded and is registered
C14_Witness ==
  \E id \in Attempted, ok \in Attempted :
    /\ attempts[id].result = "SFTP session failed"
    /\ attempts[id].hasConnected
    /\ ok \in DOMAIN connections
    /\ attempts[ok].result = "id"

\* ----------------------------------------------------------- C15
AnyOutcome == Outcomes \cup {"noFile"}

\* C15: a successful disconnect(id) takes id out of the registry; an id that
\* is out of the registry after its connect call settled never enters it
\* again; listDirectory, downloadFile, uploadFile, renameFile, deleteFile,
\* getFileStats, chmod, createDirectory and disconnect called with an id that
\* is not in the registry (disconnected, failed or never returned) fail with
\* 'Connection not found', call no transport and change nothing.
C15_NotFoundAfterDisconnect ==
  /\ [][\A id \in CallIds :
          (Disconnect(id) /\ id \in DOMAIN connections)
            => (id \notin DOMAIN connections' /\ lastOp'.result = "ok")]_vars
  /\ [][\A id \in Attempted :
          (attempts[id].result # "pending" /\ id \notin DOMAIN connections)
            => id \notin DOMAIN connections']_vars
  /\ [][\A id \in CallIds \ DOMAIN connections :
          /\ \A op \in SessionOps, outcome \in AnyOutcome :
               SessionOp(op, id, outcome)
                 => /\ lastOp' = [op |-> op, id |-> id,
                                  result |-> "Connection not found", called |-> FALSE]
                    /\ connections' = connections /\ attempts' = attempts
          /\ Disconnect(id)
               => /\ lastOp' = [op |-> "disconnect", id |-> id,
                                result |-> "Connection not found", called |-> FALSE]
                  /\ connections' = connections /\ attempts' = attempts]_vars

\* a session operation was refused for an id that connect had returned
C15_Witness ==
  /\ lastOp.op \in SessionOps
  /\ lastOp.result = "Connection not found"
  /\ lastOp.id \in Attempted
  /\ attempts[lastOp.id].result = "id"
  /\ lastOp.id \notin DOMAIN connections

\* ----------------------------------------------------------- C16
\* C16: no session whose transport has reported an error or has closed is
\* in the registry.
C16_ClosedSessionRemoved ==
  \A id \in DOMAIN connections : attempts[id].phase \notin {"errored", "closed"}

\* ----------------------------------------------------------- C17
\* C17: renameFile, getFileStats and chmod on a registered FTP/FTPS session
\* fail with their not-supported / not-available message, call nothing on
\* the FTP client and leave the registry and the client as they were.
C17_FtpUnsupported ==
  [][\A id \in DOMAIN connections, outcome \in AnyOutcome :
       connections[id] = "ftp"
         => /\ SessionOp("renameFile", id, outcome)
                 => lastOp'.result = "Rename not supported for FTP connections"
            /\ SessionOp("getFileStats", id, outcome)
                 => lastOp'.result = "File stats not available for FTP connections"
            /\ SessionOp("chmod", id, outcome)
                 => lastOp'.result = "Chmod not supported for FTP connections"
            /\ (\E op \in {"renameFile", "getFileStats", "chmod"} :
                  SessionOp(op, id, outcome))
                 => /\ ~lastOp'.called
                    /\ connections' = connections
                    /\ attempts' = attempts]_vars

\* chmod was refused on an open FTPS session that is still registered
C17_Witness ==
  /\ lastOp.op = "chmod"
  /\ lastOp.result = "Chmod not supported for FTP connections"
  /\ lastOp.id \in DOMAIN connections
  /\ attempts[lastOp.id].protocol = "ftps"
  /\ attempts[lastOp.id].phase = "open"

\* ----------------------------------------------------------- C18
\* the caps as stored: the value last set, undefined when none was
connectionCap(id, type) == IF id \in DOMAIN limits THEN limits[id][type] ELSE undefined
globalCap(type) == IF globalLimits = <<>> THEN undefined ELSE globalLimits[1][type]
\* an unset cap counts as unbounded
Unbounded(c) == IF c = undefined THEN Infinity ELSE c
\* a cap that limits: a positive finite number
Limiting(c) == c \in 1..MaxCap

\* C18: getEffectiveLimit(connectionId, direction) is the smaller of the
\* connection's cap and the global cap for that direction, an unset cap
\* counting as unbounded.
C18_EffectiveIsMin ==
  \A id \in CallIds, type \in Directions :
    getEffectiveLimit(Sl, id, type)
      = Min(Unbounded(connectionCap(id, type)), Unbounded(globalCap(type)))

\* C18 (amended): getEffectiveLimit(connectionId, direction) is the smaller of
\* the connection's cap and the global cap for that direction, where a cap
\* that is unset, 0 or Infinity counts as unbounded; it depends on nothing
\* but these two caps.
C18_EffectiveIsMinOfLimiting ==
  \A id \in CallIds, type \in Directions :
    LET c == connectionCap(id, type)
        g == globalCap(type)
        e == getEffectiveLimit(Sl, id, type)
    IN /\ (Limiting(c) /\ Limiting(g)) => e = Min(c, g)
       /\ (Limiting(c) /\ ~Limiting(g)) => e = c
       /\ (~Limiting(c) /\ Limiting(g)) => e = g
       /\ (~Limiting(c) /\ ~Limiting(g)) => e = Infinity

\* a connection cap above the global cap, with a cap for the other direction
C18_Witness ==
  \E id \in CallIds :
    /\ connectionCap(id, "upload") = MaxCap
    /\ globalCap("upload") = 1
    /\ connectionCap(id, "download") = 0
    /\ getEffectiveLimit(Sl, id, "upload") = 1

\* ----------------------------------------------------------- C19
\* the limit manager after the step
SlNext == [limits |-> limits', globalLimits |-> globalLimits']
GlobalKey(type) == IF type = "upload" THEN "globalUpload" ELSE "globalDownload"

\* C19: getSpeedLimits(id) right after setSpeedLimit(id, direction, v) reports
\* v for that direction, and right after setGlobalSpeedLimit(direction, v)
\* reports v as the global value, for every v (0, a positive number, or
\* Infinity for none).
C19_RoundTrip ==
  [][\A id \in CallIds, type \in Directions, v \in SetValues :
       /\ SetSpeedLimit(id, type, v) => getSpeedLimits(SlNext, id)[type] = v
       /\ SetGlobalSpeedLimit(type, v)
            => getSpeedLimits(SlNext, id)[GlobalKey(type)] = v]_vars

\* C19 (amended): the value reported after a set is v when v is positive or
\* Infinity, and Infinity when v is 0.
C19_RoundTripNonZero ==
  [][\A id \in CallIds, type \in Directions, v \in SetValues :
       LET back == IF v = 0 THEN Infinity ELSE v
       IN /\ SetSpeedLimit(id, type, v) => getSpeedLimits(SlNext, id)[type] = back
          /\ SetGlobalSpeedLimit(type, v)
               => getSpeedLimits(SlNext, id)[GlobalKey(type)] = back]_vars

\* a cap of 0, a positive cap and a positive global cap have been set
C19_Witness ==
  \E id \in DOMAIN limits :
    /\ limits[id]["upload"] = 0
    /\ limits[id]["download"] = MaxCap
    /\ globalCap("download") = 1
    /\ getSpeedLimits(Sl, id).upload = Infinity

\* ----------------------------------------------------------- C20
\* C20: when disconnect(id) has closed a registered session, the limit
\* manager has no entry for id, getSpeedLimits(id) reports upload and
\* download as Infinity, and the global limits are as before.
C20_DisconnectEvictsLimits ==
  [][\A id \in DOMAIN connections :
       Disconnect(id)
         => /\ id \notin DOMAIN limits'
            /\ getSpeedLimits(SlNext, id).upload = Infinity
            /\ getSpeedLimits(SlNext, id).download = Infinity
            /\ globalLimits' = globalLimits]_vars

\* ----------------------------------------------------------- C26
\* a step that ends with a processQueue pass
PassEnds ==
  \/ TimerFires
  \/ AddTransfer
  \/ \E id \in Ids : ResumeTransfer(id)
  \/ \E id \in Ids : CancelTransfer(id)

\* C26: when a processQueue pass has ended and the queue is not globally
\* paused, maxConcurrent items are 'active' or no item is 'queued'.
C26_PassFillsSlots ==
  [][PassEnds => (isPaused' \/ NumStatus("active")' = maxConcurrent
                            \/ NumStatus("queued")' = 0)]_vars

\* ----------------------------------------------------------- C27
\* resumeAll has returned and pauseAll has not been called since (GlobalSpec
\* has no other control call), an item waits and a slot is free
WaitingAfterResumeAll ==
  /\ ops > 0
  /\ ~isPaused
  /\ NumStatus("queued") > 0
  /\ NumStatus("active") < maxConcurrent

\* C27: after resumeAll, a waiting queued item with a free slot is eventually
\* started (no item is left 'queued' below capacity), with no call other than
\* completions and timer passes needed.
C27_ResumeAllRestarts ==
  [](WaitingAfterResumeAll
       => <>(isPaused \/ NumStatus("queued") = 0
                      \/ NumStatus("active") = maxConcurrent))

\* ----------------------------------------------------------- C29
\* C29: no item has more than one invocation in flight.
C29_OneInFlightPerItem == \A i \in Ids : inflight[i] <= 1

\* ----------------------------------------------------------- C21
\* C21: with a finite cap, whenever the limiter emits a chunk the bytes
\* emitted since start, that chunk included, are at most elapsed x cap; a
\* chunk that fits this budget on arrival is emitted in the same call; one
\* that does not is held for (totalBytes + len - elapsed x cap) / cap and is
\* emitted and counted only when that delay has passed.
C21_WithinBudget ==
  /\ [][(limiter.on /\ limiter.maxBytesPerSecond # Infinity
           /\ limiter'.pushed > limiter.pushed)
          => /\ limiter'.totalBytes = limiter'.pushed
             /\ limiter'.pushed <= limiter'.elapsed * limiter.maxBytesPerSecond]_vars
  /\ [][\A len \in 1..MaxChunk :
          (Transform(len) /\ limiter.maxBytesPerSecond # Infinity)
            => LET budget == limiter.elapsed * limiter.maxBytesPerSecond
               IN IF limiter.totalBytes + len <= budget
                  THEN limiter'.pushed = limiter.pushed + len /\ limiter'.held = 0
                  ELSE /\ limiter'.pushed = limiter.pushed
                       /\ limiter'.held = len
                       /\ limiter'.wait = limiter.totalBytes + len - budget]_vars
  /\ [][(limiter.on /\ limiter.held > 0 /\ limiter'.held = 0)
          => /\ (limiter.elapsed - limiter.since) * limiter.maxBytesPerSecond
                  >= limiter.wait
             /\ limiter'.pushed = limiter.pushed + limiter.held]_vars

\* a chunk was held back and has been emitted while an earlier chunk had
\* passed at once
C21_Witness ==
  /\ limiter.on
  /\ limiter.maxBytesPerSecond = MaxCap
  /\ limiter.held = 0
  /\ limiter.wait > 0
  /\ limiter.pushed = limiter.elapsed * limiter.maxBytesPerSecond
  /\ limiter.pushed > MaxChunk

\* ----------------------------------------------------------- C22
\* 'upload' for uploadFile, 'download' for downloadFile
direction(op) == IF op = "uploadFile" THEN "upload" ELSE "download"

\* C22: whenever the transport of an upload or a download starts on a
\* session of any protocol and the effective cap of that session and
\* direction is finite, the handler has read that cap from the limit
\* registry and applies it to the transfer.
C22_CapResolved ==
  [][(xfer.transport # "running" /\ xfer'.transport = "running")
       => LET cap == getEffectiveLimit(Sl, xfer'.id, direction(xfer'.op))
          IN cap # Infinity => xfer'.speedLimit = cap]_vars

\* ----------------------------------------------------------- C23
\* C23: every chunk boundary of a running transfer produces exactly one
\* progress report, on every protocol, whether the limiter lets the chunk
\* pass or delays it.
C23_ReportPerChunk ==
  [][xfer'.chunks > xfer.chunks => xfer'.reports = xfer.reports + 1]_vars

\* ----------------------------------------------------------- C28
\* C28: an SFTP upload whose transport call has not returned when the 30 s
\* timer is due fails with the upload-timeout error, whatever progress was
\* made, and its queue item becomes 'error' when the handler returns; an
\* upload whose transport call returned before that is never failed by the
\* timeout.
C28_UploadTimeout ==
  /\ [](/\ (/\ xfer.op = "uploadFile" /\ xfer.type = "sftp"
            /\ xfer.elapsed > UploadTimeoutTicks
            /\ (xfer.returnedAt = undefined \/ xfer.returnedAt > UploadTimeoutTicks))
           => xfer.result = TimeoutMsg
        /\ (xfer.returnedAt # undefined /\ xfer.returnedAt < UploadTimeoutTicks)
           => xfer.result # TimeoutMsg)
  /\ [][(HandlerReturns /\ xfer.result = TimeoutMsg)
          => /\ items'[xfer.item].status = "error"
             /\ items'[xfer.item].error = TimeoutMsg]_vars

\* an upload that was moving bytes timed out and its item is in 'error'
C28_Witness ==
  /\ xfer.state = "returned"
  /\ xfer.result = TimeoutMsg
  /\ xfer.transferred > 0
  /\ xfer.elapsed > UploadTimeoutTicks
  /\ items[xfer.item].status = "error"

\* an upload whose transport returned in time completed
C28_InTime ==
  /\ xfer.state = "returned"
  /\ xfer.type = "sftp" /\ xfer.op = "uploadFile"
  /\ xfer.returnedAt # undefined /\ xfer.returnedAt < UploadTimeoutTicks
  /\ xfer.result = "ok"

\* ----------------------------------------------------------- C24
\* C24: when createDirectory on an SFTP session succeeds, every segment of
\* the path exists on the server as a directory; when it fails, it names the
\* segment whose creation failed and no deeper segment was attempted.
C24_SegmentsAreDirectories ==
  mk.state = "done" =>
    IF mk.result = "ok"
    THEN \A k \in 1..mk.n : remote[k] = "dir"
    ELSE mk.segment = mk.index

\* ----------------------------------------------------------- C25
\* C25: every remote operation started from the user interface targets the
\* connection of the currently active tab, and none is started while the
\* active tab is not connected; disconnect closes the session of the
\* active tab and no other.
C25_TargetsActiveTab ==
  /\ [][RemoteOperation => target' = tabs[activeTabId]]_vars
  /\ [][DisconnectTab => sessions \ sessions' = {tabs[activeTabId]}]_vars

\* ----------------------------------------------------------- C30
\* C30: the plan returned by compareSyncFiles holds at most one action per
\* relative path; in particular never an upload and a download of the same
\* file.
C30_OneActionPerPath ==
  sync.called =>
    \A i, j \in 1..Len(sync.actions) :
      sync.actions[i].file = sync.actions[j].file => i = j
====
